---- MODULE Spec2Model ----
(***************************************************************************)
(* Model of the unmessy-email validation service                          *)
(* (EmailValidationService, CSVManager and the endpoints that drive them). *)
(* Strings are sequences of one-character strings; a JavaScript value is a *)
(* record of its type and of its string coercion.                          *)
(***************************************************************************)
EXTENDS Integers, Sequences, FiniteSets, TLC

(***************************************************************************)
(* Characters and JavaScript string primitives                             *)
(***************************************************************************)

LowerSeq ==
  <<"a","b","c","d","e","f","g","h","i","j","k","l","m",
    "n","o","p","q","r","s","t","u","v","w","x","y","z">>

UpperSeq ==
  <<"A","B","C","D","E","F","G","H","I","J","K","L","M",
    "N","O","P","Q","R","S","T","U","V","W","X","Y","Z">>

Range(f) == { f[i] : i \in DOMAIN f }

Lower == Range(LowerSeq)

Upper == Range(UpperSeq)

Digit == {"0","1","2","3","4","5","6","7","8","9"}

\* [a-zA-Z0-9]
Alnum == Lower \cup Upper \cup Digit

\* the local-part class of emailRegex: [a-zA-Z0-9.!#$%&'*+/=?^_{|}~-] and the
\* grave accent, which a TLA+ string cannot hold and no input below uses
LocalChars ==
  Alnum \cup {".","!","#","$","%","&","'","*","+","/","=","?","^","_","{","|","}","~","-"}

\* the regular expression class \s, as far as the inputs use it
Whitespace == {" ", "\t", "\n"}

\* String.prototype.toLowerCase on one character
LowerOf ==
  [c \in Upper |-> LowerSeq[CHOOSE i \in DOMAIN UpperSeq : UpperSeq[i] = c]]

LowerChar(c) == IF c \in Upper THEN LowerOf[c] ELSE c

\* String.prototype.toLowerCase
ToLowerCase(s) == [i \in DOMAIN s |-> LowerChar(s[i])]

\* String.prototype.trim
Trim(s) ==
  LET keep == { i \in DOMAIN s : s[i] \notin Whitespace } IN
  IF keep = {} THEN <<>>
  ELSE LET lo == CHOOSE i \in keep : \A j \in keep : i <= j
           hi == CHOOSE i \in keep : \A j \in keep : j <= i
       IN SubSeq(s, lo, hi)

\* s.replace(/\s/g, '')
RemoveWhitespace(s) == SelectSeq(s, LAMBDA c : c \notin Whitespace)

\* String.prototype.split with a one-character separator
RECURSIVE Split(_, _)
Split(s, sep) ==
  IF \A i \in DOMAIN s : s[i] # sep THEN <<s>>
  ELSE LET p == CHOOSE i \in DOMAIN s : s[i] = sep /\ \A j \in 1..(i-1) : s[j] # sep
       IN <<SubSeq(s, 1, p - 1)>> \o Split(SubSeq(s, p + 1, Len(s)), sep)

\* String.prototype.includes with a one-character needle
Includes(s, c) == \E i \in DOMAIN s : s[i] = c

\* String.prototype.endsWith
EndsWith(s, suffix) ==
  /\ Len(suffix) <= Len(s)
  /\ SubSeq(s, Len(s) - Len(suffix) + 1, Len(s)) = suffix

(***************************************************************************)
(* JavaScript values handed to the service                                 *)
(***************************************************************************)

\* a string value
Str(s) == [type |-> "string", str |-> s]

\* the value null; String(null) is "null"
Null == [type |-> "null", str |-> <<"n","u","l","l">>]

\* a one-element array holding the string s; String([s]) is s
Arr(s) == [type |-> "array", str |-> s]

\* the test !email is false
Truthy(v) ==
  CASE v.type = "string" -> v.str # <<>>
    [] v.type = "null" -> FALSE
    [] OTHER -> TRUE

(***************************************************************************)
(* Configuration                                                           *)
(***************************************************************************)

\* the value undefined of an optional field
Undefined == "undefined"

\* process.env as the configuration reads it
Envs ==
  [USE_ZERO_BOUNCE : {"true", "false"}, ZERO_BOUNCE_API_KEY : {"", "zb-key"}]

\* defaultConfig.validation
defaultValidation(env) ==
  [useZeroBounce |-> env.USE_ZERO_BOUNCE = "true",
   zeroBounceApiKey |-> env.ZERO_BOUNCE_API_KEY,
   removeGmailAliases |-> TRUE,
   checkAustralianTlds |-> TRUE]

\* loadConfig(overrides): validation is defaultConfig.validation with the
\* overrides' validation fields laid over it
loadConfig(env, overrides) ==
  [validation |->
     [k \in DOMAIN defaultValidation(env) |->
        IF k \in DOMAIN overrides THEN overrides[k] ELSE defaultValidation(env)[k]]]

\* the config literal of the batch endpoint and of the webhook handler: the
\* options are top-level fields and there is no validation object
handlerConfig(env) ==
  [useZeroBounce |-> env.USE_ZERO_BOUNCE = "true",
   zeroBounceApiKey |-> env.ZERO_BOUNCE_API_KEY,
   removeGmailAliases |-> TRUE,
   checkAustralianTlds |-> TRUE]

\* the truth value of this.config.validation?.<field>: undefined, false and the
\* empty string are falsy
validationOption(cfg, field) ==
  /\ "validation" \in DOMAIN cfg
  /\ IF field = "zeroBounceApiKey" THEN cfg.validation[field] # ""
     ELSE cfg.validation[field]

(***************************************************************************)
(* Domain correction tables (utils/domain-utils)                           *)
(***************************************************************************)

GmailCom == <<"g","m","a","i","l",".","c","o","m">>

GmialCom == <<"g","m","i","a","l",".","c","o","m">>

DotComAu == <<".","c","o","m",".","a","u">>

DotConAu == <<".","c","o","n",".","a","u">>

\* DOMAIN_TYPOS: misspelled domain -> corrected domain
DOMAIN_TYPOS == { <<GmialCom, GmailCom>> }

\* AUSTRALIAN_TLDS: incorrect suffix -> corrected suffix
AUSTRALIAN_TLDS == { <<DotConAu, DotComAu>> }

\* correctDomainTypos(domain) -> {corrected, domain}
correctDomainTypos(domain) ==
  IF \E t \in DOMAIN_TYPOS : t[1] = ToLowerCase(domain)
  THEN [corrected |-> TRUE,
        domain |-> (CHOOSE t \in DOMAIN_TYPOS : t[1] = ToLowerCase(domain))[2]]
  ELSE [corrected |-> FALSE, domain |-> domain]

\* correctAustralianTLD(domain) -> {corrected, domain}
correctAustralianTLD(domain) ==
  IF \E t \in AUSTRALIAN_TLDS : EndsWith(domain, t[1])
  THEN LET t == CHOOSE u \in AUSTRALIAN_TLDS : EndsWith(domain, u[1])
       IN [corrected |-> TRUE,
           domain |-> SubSeq(domain, 1, Len(domain) - Len(t[1])) \o t[2]]
  ELSE [corrected |-> FALSE, domain |-> domain]

\* extractDomainFromEmail(email): the second segment of a split on "@", or
\* null when the email has not exactly one "@"
extractDomainFromEmail(email) ==
  LET parts == Split(email, "@") IN
  IF Len(parts) # 2 THEN Null ELSE Str(parts[2])

(***************************************************************************)
(* EmailValidationService: pure parts                                      *)
(***************************************************************************)

\* longest DNS label emailRegex accepts: one character, up to 61, one more
MaxLabelLen == 63

\* faulty variant: the label class without the rule that a label begins and ends with
\* a letter or digit
LabelMatches_HyphenEdges(l) ==
  /\ Len(l) >= 1
  /\ Len(l) <= MaxLabelLen
  /\ \A i \in DOMAIN l : l[i] \in Alnum \cup {"-"}

\* [a-zA-Z0-9](?:[a-zA-Z0-9-]{0,61}[a-zA-Z0-9])?
LabelMatches(l) ==
  /\ Len(l) >= 1
  /\ Len(l) <= MaxLabelLen
  /\ l[1] \in Alnum
  /\ l[Len(l)] \in Alnum
  /\ \A i \in DOMAIN l : l[i] \in Alnum \cup {"-"}

\* emailRegex.test(s): local part, "@", label, then ".label" segments
emailRegexTest(s) ==
  LET parts == Split(s, "@") IN
  /\ Len(parts) = 2
  /\ Len(parts[1]) >= 1
  /\ \A i \in DOMAIN parts[1] : parts[1][i] \in LocalChars
  /\ LET labels == Split(parts[2], ".")
     IN \A i \in DOMAIN labels : LabelMatches(labels[i])

\* faulty variant: the regular expression is tried on the input without its whitespace
isValidEmailFormat_IgnoresSpace(email) ==
  IF ~Truthy(email) THEN FALSE ELSE emailRegexTest(RemoveWhitespace(email.str))

\* isValidEmailFormat(email)
isValidEmailFormat(email) ==
  IF ~Truthy(email) THEN FALSE ELSE emailRegexTest(email.str)

\* the value null of result.subStatus and of correctionType
NullValue == "null"

\* the TypeError of calling email.trim() on a value that is not a string
TrimTypeError == "email.trim is not a function"

\* faulty variant: a later rule does not overwrite the correctionType an earlier
\* rule has set
lastCorrectionType_FirstWins(wsFired, domainCorrected, aliasFired, tldFired) ==
  IF wsFired THEN "whitespace"
  ELSE IF domainCorrected THEN "domain_typo"
  ELSE IF aliasFired THEN "gmail_alias"
  ELSE IF tldFired THEN "tld"
  ELSE NullValue

\* correctionType at the end of correctEmailTypos: it starts as null and each
\* rule that fires assigns it, in the order whitespace, domain typo, Gmail
\* alias, Australian TLD
lastCorrectionType(wsFired, domainCorrected, aliasFired, tldFired) ==
  IF tldFired THEN "tld"
  ELSE IF aliasFired THEN "gmail_alias"
  ELSE IF domainCorrected THEN "domain_typo"
  ELSE IF wsFired THEN "whitespace"
  ELSE NullValue

\* faulty variant: the alias rule does not look at the configuration
gmailAliasApplies_IgnoresFlag(cfg, effDomain, localPart) ==
  /\ effDomain = GmailCom
  /\ Includes(localPart, "+")

\* the condition of the Gmail alias rule
gmailAliasApplies(cfg, effDomain, localPart) ==
  /\ validationOption(cfg, "removeGmailAliases")
  /\ effDomain = GmailCom
  /\ Includes(localPart, "+")

\* faulty variant: localPart.split('+')[1], the part after the first "+"
gmailBaseLocal_AfterPlus(localPart) == Split(localPart, "+")[2]

\* faulty variant: localPart.replace('+', ''), which drops the first "+" only
gmailBaseLocal_DropsPlus(localPart) ==
  LET i == CHOOSE k \in DOMAIN localPart :
             localPart[k] = "+" /\ \A j \in 1..(k - 1) : localPart[j] # "+"
  IN SubSeq(localPart, 1, i - 1) \o SubSeq(localPart, i + 1, Len(localPart))

\* localPart.split('+')[0]
gmailBaseLocal(localPart) == Split(localPart, "+")[1]

\* faulty variant: the rules run on the first two parts whenever there are two
hasTwoParts_OrMore(parts) == Len(parts) >= 2

\* parts.length !== 2 sends correctEmailTypos to its early return
hasTwoParts(parts) == Len(parts) = 2

\* correctEmailTypos(email), with the invocations of csvManager.addCorrectedEmail
\* it makes (recorderCalls) and the exception it throws, if any (threw)
correctEmailTypos(cfg, email) ==
  IF ~Truthy(email)
  THEN [threw |-> FALSE, error |-> NullValue, corrected |-> FALSE, email |-> email,
        correctionType |-> NullValue, recorderCalls |-> <<>>]
  ELSE IF email.type # "string"
  THEN [threw |-> TRUE, error |-> TrimTypeError, corrected |-> FALSE, email |-> email,
        correctionType |-> NullValue, recorderCalls |-> <<>>]
  ELSE
    LET trimmed == ToLowerCase(Trim(email.str))
        noSpaceEmail == RemoveWhitespace(trimmed)
        wsFired == noSpaceEmail # trimmed
        cleaned1 == IF wsFired THEN noSpaceEmail ELSE trimmed
        parts == Split(cleaned1, "@")
    IN
    IF ~hasTwoParts(parts)
    THEN [threw |-> FALSE, error |-> NullValue, corrected |-> wsFired,
          email |-> Str(cleaned1),
          correctionType |-> IF wsFired THEN "whitespace" ELSE NullValue,
          recorderCalls |-> <<>>]
    ELSE
      LET localPart == parts[1]
          domain == parts[2]
          typo == correctDomainTypos(domain)
          domainCorrected == typo.corrected
          correctedDomain == typo.domain
          cleaned2 == IF domainCorrected THEN localPart \o <<"@">> \o correctedDomain
                      ELSE cleaned1
          \* (correctedDomain || domain)
          effDomain == IF correctedDomain # <<>> THEN correctedDomain ELSE domain
          aliasFired == gmailAliasApplies(cfg, effDomain, localPart)
          baseLocal == gmailBaseLocal(localPart)
          cleaned3 == IF aliasFired THEN baseLocal \o <<"@">> \o GmailCom ELSE cleaned2
          tld == correctAustralianTLD(effDomain)
          tldFired == /\ validationOption(cfg, "checkAustralianTlds")
                      /\ tld.corrected
          cleaned4 == IF tldFired THEN localPart \o <<"@">> \o tld.domain ELSE cleaned3
          corrected == wsFired \/ domainCorrected \/ aliasFired \/ tldFired
          correctionType == lastCorrectionType(wsFired, domainCorrected, aliasFired, tldFired)
      IN [threw |-> FALSE, error |-> NullValue, corrected |-> corrected,
          email |-> Str(cleaned4), correctionType |-> correctionType,
          recorderCalls |->
            IF corrected THEN << <<email, Str(cleaned4), correctionType>> >> ELSE <<>>]

\* faulty variant: the lookup without toLowerCase
isKnownValidEmail_CaseSensitive(known, email) == email \in known

\* isKnownValidEmail(email)
isKnownValidEmail(known, email) == ToLowerCase(email) \in known

\* isValidDomain(email)
isValidDomain(domains, email) ==
  LET domain == extractDomainFromEmail(email) IN
  IF ~Truthy(domain) THEN FALSE
  ELSE ToLowerCase(domain.str) \in domains

(***************************************************************************)
(* checkWithZeroBounce                                                     *)
(***************************************************************************)

\* what the ZeroBounce request can come back with: a rejected promise (network
\* error, HTTP error status) or response.data with its status and sub_status
ZeroBounceResponses ==
  { [ok |-> FALSE, status |-> Undefined, sub_status |-> Undefined] }
  \cup { [ok |-> TRUE, status |-> st, sub_status |-> ""] :
           st \in {"valid", "catch-all", "unknown", "spamtrap", "abuse",
                   "do_not_mail", Undefined} }
  \cup { [ok |-> TRUE, status |-> "invalid", sub_status |-> ss] :
           ss \in {"mailbox_not_found", ""} }

\* faulty variant: no default arm, an unlisted status is passed through
mapZeroBounceStatus_PassThrough(result) ==
  CASE result.status = "valid" ->
         [status |-> "valid", subStatus |-> Undefined, recheckNeeded |-> FALSE]
    [] result.status = "invalid" ->
         [status |-> "invalid", subStatus |-> result.sub_status, recheckNeeded |-> FALSE]
    [] result.status \in {"catch-all", "unknown"} ->
         [status |-> "unknown", subStatus |-> Undefined, recheckNeeded |-> TRUE]
    [] result.status \in {"spamtrap", "abuse"} ->
         [status |-> "invalid", subStatus |-> result.status, recheckNeeded |-> FALSE]
    [] OTHER ->
         [status |-> result.status, subStatus |-> Undefined, recheckNeeded |-> TRUE]

\* the switch on result.status
mapZeroBounceStatus(result) ==
  CASE result.status = "valid" ->
         [status |-> "valid", subStatus |-> Undefined, recheckNeeded |-> FALSE]
    [] result.status = "invalid" ->
         [status |-> "invalid", subStatus |-> result.sub_status, recheckNeeded |-> FALSE]
    [] result.status = "catch-all" ->
         [status |-> "unknown", subStatus |-> Undefined, recheckNeeded |-> TRUE]
    [] result.status = "unknown" ->
         [status |-> "unknown", subStatus |-> Undefined, recheckNeeded |-> TRUE]
    [] result.status = "spamtrap" ->
         [status |-> "invalid", subStatus |-> "spamtrap", recheckNeeded |-> FALSE]
    [] result.status = "abuse" ->
         [status |-> "invalid", subStatus |-> "abuse", recheckNeeded |-> FALSE]
    [] OTHER ->
         [status |-> "check_failed", subStatus |-> Undefined, recheckNeeded |-> TRUE]

\* faulty variant: the catch block reports the failure as final
zeroBounceFailed_NoRecheck(email, message) ==
  [email |-> email, status |-> "check_failed", subStatus |-> Undefined,
   recheckNeeded |-> FALSE, source |-> "zerobounce", error |-> message]

\* the object the catch block of checkWithZeroBounce returns
zeroBounceFailed(email, message) ==
  [email |-> email, status |-> "check_failed", subStatus |-> Undefined,
   recheckNeeded |-> TRUE, source |-> "zerobounce", error |-> message]

\* the object checkWithZeroBounce returns after the switch
zeroBounceChecked(email, result) ==
  LET m == mapZeroBounceStatus(result) IN
  [email |-> email, status |-> m.status, subStatus |-> m.subStatus,
   recheckNeeded |-> m.recheckNeeded, source |-> "zerobounce", error |-> Undefined]

\* checkWithZeroBounce once the request has settled with response resp
zeroBounceSettled(email, resp) ==
  IF resp.ok THEN zeroBounceChecked(email, resp)
  ELSE zeroBounceFailed(email, "Network Error")

\* faulty variant: a failed write of validated.csv reaches the catch block
zeroBounceOutcome_WriteThrows(email, resp, writeOk) ==
  IF resp.ok /\ mapZeroBounceStatus(resp).status = "valid" /\ ~writeOk
  THEN zeroBounceFailed(email, "EACCES: permission denied")
  ELSE zeroBounceSettled(email, resp)

\* what checkWithZeroBounce returns once the request has settled, writeOk
\* telling whether the write of addValidatedEmail goes through: appendToCSV
\* catches a failed write, so the outcome is the same either way
zeroBounceOutcome(email, resp, writeOk) == zeroBounceSettled(email, resp)

\* faulty variant: a valid email is persisted but not added to the in-memory set
zeroBounceKnownAdd_Forgets(email, bounceCheck) == {}

\* the emails checkWithZeroBounce adds to knownValidEmails
zeroBounceKnownAdd(email, bounceCheck) ==
  IF bounceCheck.status = "valid" THEN {ToLowerCase(email)} ELSE {}

\* faulty variant: the set is rebuilt from the email just validated
knownAfterCheck_Rebuilt(known, email, bounceCheck) ==
  IF bounceCheck.status = "valid" THEN {ToLowerCase(email)} ELSE known

\* this.knownValidEmails after checkWithZeroBounce: Set.prototype.add on a
\* valid status, untouched otherwise
knownAfterCheck(known, email, bounceCheck) ==
  known \cup zeroBounceKnownAdd(email, bounceCheck)

\* the rows checkWithZeroBounce hands to csvManager.addValidatedEmail
zeroBouncePersist(email, bounceCheck) ==
  IF bounceCheck.status = "valid"
  THEN << [email |-> ToLowerCase(email), validation_source |-> "zerobounce"] >>
  ELSE <<>>

(***************************************************************************)
(* validateEmail                                                           *)
(***************************************************************************)

\* the result object validateEmail starts from
initialResult(email) ==
  [originalEmail |-> email, currentEmail |-> email, formatValid |-> FALSE,
   wasCorrected |-> FALSE, isKnownValid |-> FALSE, domainValid |-> FALSE,
   status |-> "unknown", subStatus |-> NullValue, recheckNeeded |-> TRUE,
   validationSteps |-> <<>>]

\* faulty variant: recheckNeeded is not taken from the checker
validateEmailAdopt_KeepsRecheck(result, bounceCheck) ==
  [result EXCEPT !.status = bounceCheck.status,
                 !.subStatus = bounceCheck.subStatus,
                 !.validationSteps =
                    Append(@, [step |-> "zerobounce_check", result |-> bounceCheck])]

\* step 5 with ZeroBounce: the result takes the checker's status, subStatus and
\* recheckNeeded and gets the zerobounce_check step
validateEmailAdopt(result, bounceCheck) ==
  [result EXCEPT !.status = bounceCheck.status,
                 !.subStatus = bounceCheck.subStatus,
                 !.recheckNeeded = bounceCheck.recheckNeeded,
                 !.validationSteps =
                    Append(@, [step |-> "zerobounce_check", result |-> bounceCheck])]

\* what a validateEmail call has done when it returns, throws or starts to wait
\* for the ZeroBounce request: phase is "returned", "raised" or "awaiting";
\* recorderCalls are the argument lists of its addCorrectedEmail calls,
\* checkerCalls the arguments of its checkWithZeroBounce calls, requests the
\* emails it sent to the ZeroBounce API
callOutcome(phase, error, result, recorderCalls, checkerCalls, requests) ==
  [phase |-> phase, error |-> error, result |-> result,
   recorderCalls |-> recorderCalls, checkerCalls |-> checkerCalls,
   requests |-> requests]

\* faulty variant: result.validationSteps.unshift(step)
pushStep_Unshift(result, step) ==
  [result EXCEPT !.validationSteps = <<step>> \o @]

\* result.validationSteps.push(step)
pushStep(result, step) ==
  [result EXCEPT !.validationSteps = Append(@, step)]

\* faulty variant: the domain-only branch leaves recheckNeeded at its initial value
validateEmailStep5_RecheckKept(cfg, r4, recorderCalls, correctedEmail) ==
  IF validationOption(cfg, "useZeroBounce")
  THEN IF validationOption(cfg, "zeroBounceApiKey")
       THEN callOutcome("awaiting", NullValue, r4, recorderCalls,
                        <<correctedEmail>>, <<correctedEmail>>)
       ELSE callOutcome("returned", NullValue,
                        validateEmailAdopt(r4,
                          zeroBounceFailed(correctedEmail, "ZeroBounce API key not configured")),
                        recorderCalls, <<correctedEmail>>, <<>>)
  ELSE callOutcome("returned", NullValue,
                   [r4 EXCEPT !.status = IF r4.domainValid THEN "unknown" ELSE "invalid"],
                   recorderCalls, <<>>, <<>>)

\* Step 5: ZeroBounce when enabled (the call waits for the request, or fails at
\* once without an API key), the domain check otherwise
validateEmailStep5(cfg, r4, recorderCalls, correctedEmail) ==
  IF validationOption(cfg, "useZeroBounce")
  THEN IF validationOption(cfg, "zeroBounceApiKey")
       THEN callOutcome("awaiting", NullValue, r4, recorderCalls,
                        <<correctedEmail>>, <<correctedEmail>>)
       ELSE callOutcome("returned", NullValue,
                        validateEmailAdopt(r4,
                          zeroBounceFailed(correctedEmail, "ZeroBounce API key not configured")),
                        recorderCalls, <<correctedEmail>>, <<>>)
  ELSE callOutcome("returned", NullValue,
                   [r4 EXCEPT !.status = IF r4.domainValid THEN "unknown" ELSE "invalid",
                              !.recheckNeeded = r4.domainValid],
                   recorderCalls, <<>>, <<>>)

\* faulty variant: the domain check appends no step record
validateEmailStep4_NoRecord(cfg, domains, r3, recorderCalls, correctedEmail) ==
  validateEmailStep5(cfg,
    [r3 EXCEPT !.domainValid = isValidDomain(domains, correctedEmail)],
    recorderCalls, correctedEmail)

\* Step 4: domain check
validateEmailStep4(cfg, domains, r3, recorderCalls, correctedEmail) ==
  validateEmailStep5(cfg,
    pushStep([r3 EXCEPT !.domainValid = isValidDomain(domains, correctedEmail)],
             [step |-> "domain_check", passed |-> isValidDomain(domains, correctedEmail)]),
    recorderCalls, correctedEmail)

\* faulty variant: a known-valid email is marked valid but the call does not return
validateEmailStep3_NoReturn(cfg, domains, known, r2, recorderCalls, correctedEmail) ==
  validateEmailStep4(cfg, domains,
    IF isKnownValidEmail(known, correctedEmail)
    THEN [pushStep(r2, [step |-> "known_valid_check", passed |-> TRUE])
            EXCEPT !.isKnownValid = TRUE, !.status = "valid", !.recheckNeeded = FALSE]
    ELSE pushStep(r2, [step |-> "known_valid_check", passed |-> FALSE]),
    recorderCalls, correctedEmail)

\* Step 3: known-valid check, which returns valid when it passes
validateEmailStep3(cfg, domains, known, r2, recorderCalls, correctedEmail) ==
  IF isKnownValidEmail(known, correctedEmail)
  THEN callOutcome("returned", NullValue,
                   [pushStep(r2, [step |-> "known_valid_check", passed |-> TRUE])
                      EXCEPT !.isKnownValid = TRUE, !.status = "valid",
                             !.recheckNeeded = FALSE],
                   recorderCalls, <<>>, <<>>)
  ELSE validateEmailStep4(cfg, domains,
                          pushStep(r2, [step |-> "known_valid_check", passed |-> FALSE]),
                          recorderCalls, correctedEmail)

\* faulty variant: the later steps get the original email where the code passes the
\* corrected one
validateEmailStep2_UsesOriginal(cfg, domains, known, r1, email, c) ==
  IF c.threw
  THEN callOutcome("raised", c.error, r1, c.recorderCalls, <<>>, <<>>)
  ELSE validateEmailStep3(cfg, domains, known,
         pushStep([r1 EXCEPT !.wasCorrected = c.corrected, !.currentEmail = c.email],
                  [step |-> "typo_correction", applied |-> c.corrected,
                   correctionType |-> c.correctionType,
                   original |-> email, corrected |-> c.email]),
         c.recorderCalls, email.str)

\* Step 2: typo correction; c is what correctEmailTypos(email) did
validateEmailStep2(cfg, domains, known, r1, email, c) ==
  IF c.threw
  THEN callOutcome("raised", c.error, r1, c.recorderCalls, <<>>, <<>>)
  ELSE validateEmailStep3(cfg, domains, known,
         pushStep([r1 EXCEPT !.wasCorrected = c.corrected, !.currentEmail = c.email],
                  [step |-> "typo_correction", applied |-> c.corrected,
                   correctionType |-> c.correctionType,
                   original |-> email, corrected |-> c.email]),
         c.recorderCalls, c.email.str)

\* faulty variant: the correction runs before the format check decides
validateEmailStep1_CorrectsFirst(cfg, domains, known, r0, email) ==
  IF ~isValidEmailFormat(email)
  THEN callOutcome("returned", NullValue,
                   [pushStep(r0, [step |-> "format_check", passed |-> FALSE])
                      EXCEPT !.formatValid = FALSE, !.status = "invalid",
                             !.subStatus = "bad_format", !.recheckNeeded = FALSE],
                   IF email.type = "string"
                   THEN correctEmailTypos(cfg, email).recorderCalls ELSE <<>>,
                   <<>>, <<>>)
  ELSE validateEmailStep2(cfg, domains, known,
         [pushStep(r0, [step |-> "format_check", passed |-> TRUE])
            EXCEPT !.formatValid = TRUE],
         email, correctEmailTypos(cfg, email))

\* Step 1: format check, which returns invalid/bad_format when it fails
validateEmailStep1(cfg, domains, known, r0, email) ==
  IF ~isValidEmailFormat(email)
  THEN callOutcome("returned", NullValue,
                   [pushStep(r0, [step |-> "format_check", passed |-> FALSE])
                      EXCEPT !.formatValid = FALSE, !.status = "invalid",
                             !.subStatus = "bad_format", !.recheckNeeded = FALSE],
                   <<>>, <<>>, <<>>)
  ELSE validateEmailStep2(cfg, domains, known,
         [pushStep(r0, [step |-> "format_check", passed |-> TRUE])
            EXCEPT !.formatValid = TRUE],
         email, correctEmailTypos(cfg, email))

\* validateEmail(email) up to the point where it returns, throws or waits for
\* the ZeroBounce request
validateEmailBegin(cfg, domains, known, email) ==
  validateEmailStep1(cfg, domains, known, initialResult(email), email)

(***************************************************************************)
(* CSVManager                                                              *)
(***************************************************************************)

\* the default domains loadValidDomains adds whatever the file holds
DefaultDomains ==
  { GmailCom,
    <<"o","u","t","l","o","o","k",".","c","o","m">>,
    <<"h","o","t","m","a","i","l",".","c","o","m">>,
    <<"y","a","h","o","o",".","c","o","m">>,
    <<"i","c","l","o","u","d",".","c","o","m">>,
    <<"a","o","l",".","c","o","m">> }

\* readCSV(filePath): the parsed rows of a file that is there and can be read,
\* [] when the file is missing or reading it fails
readCSV(file) == IF file.state = "ok" THEN file.rows ELSE <<>>

\* faulty variant: the default domains are added only when the file gave no rows
loadValidDomains_SeedsWhenEmpty(data) ==
  IF data = <<>> THEN DefaultDomains
  ELSE { ToLowerCase(Trim(data[i].domain)) : i \in { j \in DOMAIN data : data[j].domain # <<>> } }

\* loadValidDomains(): data is what readCSV returned for valid-domains.csv
loadValidDomains(data) ==
  DefaultDomains
  \cup { ToLowerCase(Trim(data[i].domain)) : i \in { j \in DOMAIN data : data[j].domain # <<>> } }

\* loadValidatedEmails(): data is what readCSV returned for validated.csv
loadValidatedEmails(data) ==
  { ToLowerCase(Trim(data[i].email)) : i \in { j \in DOMAIN data : data[j].email # <<>> } }

\* the row addCorrectedEmail(originalEmail, correctedEmail, correctionType) appends
correctedEmailRow(invocation) ==
  [original_email |-> invocation[1], corrected_email |-> invocation[2],
   correction_type |-> invocation[3]]

\* appendToCSV: the file after the rows are appended; a failed write is caught
\* and leaves the file as it was
appendToCSV(file, rows, writeOk) == IF writeOk THEN file \o rows ELSE file

(***************************************************************************)
(* Inputs                                                                  *)
(***************************************************************************)

\* at most this many validateEmail calls are made, directly or by validateBatch
MaxCalls == 2

\* at most this many entries in one batch
MaxBatch == 2

At(local, domain) == local \o <<"@">> \o domain

XGmail == At(<<"x">>, GmailCom)

JohnGmial == At(<<"j","o","h","n">>, GmialCom)

AliasGmail == At(<<"j","+","p">>, GmailCom)

UpperGmail == At(<<"X">>, <<"G","m","a","i","l",".","c","o","m">>)

UnknownDomain == At(<<"x">>, <<"u","n","k","n","o","w","n",".","z","z","z">>)

ShopConAu == At(<<"x">>, <<"s","h","o","p">> \o DotConAu)

ABCom == At(<<"a">>, <<"b",".","c","o","m">>)

BadEmail == <<"b","a","d","-","e","m","a","i","l">>

TwoAts == <<"a","@","b","@","c">>

HyphenLabel == At(<<"a">>, <<"-","b",".","c","o","m">>)

LeadingSpace == <<" ">> \o XGmail

InnerSpace == At(<<"x"," ">>, GmailCom)

LongLabel(n) == At(<<"a">>, [i \in 1..n |-> "x"])

\* the values handed to validateEmail
TrailingNewline == XGmail \o <<"\n">>

Emails ==
  { Str(<<>>), Null, Str(BadEmail), Str(TwoAts), Str(HyphenLabel), Str(LeadingSpace), Str(InnerSpace),
    Str(TrailingNewline),
    Str(LongLabel(MaxLabelLen + 1)), Str(LongLabel(MaxLabelLen)),
    Str(XGmail), Str(JohnGmial), Str(AliasGmail), Str(UpperGmail),
    Str(UnknownDomain), Str(ShopConAu), Str(ABCom), Arr(XGmail), Arr(BadEmail) }

SpacedWord == <<"a"," ","b">>

SpacedGmial == At(<<"j"," ">>, GmialCom)

AliasGmial == At(<<"j","+","p">>, GmialCom)

SpacedAliasGmial == At(<<"j"," ","+","p">>, GmialCom)

TwoPlusGmail == At(<<"j","+","p","+","q">>, GmailCom)

AliasOther == At(<<"j","+","p">>, <<"b",".","c","o","m">>)

SpacedConAu == At(<<"x"," ">>, <<"s","h","o","p">> \o DotConAu)

\* the values handed to correctEmailTypos when it is called on its own; unlike
\* the values validateEmail passes on, they need not have passed the format check
TwoAtsGmial == <<"J"," ","+","p","@">> \o GmialCom \o <<"@","x">>

CorrectorEmails ==
  { Str(<<>>), Null, Arr(XGmail), Str(BadEmail), Str(TwoAts), Str(SpacedWord),
    Str(TwoAtsGmial),
    Str(XGmail), Str(UpperGmail), Str(LeadingSpace), Str(InnerSpace),
    Str(JohnGmial), Str(SpacedGmial), Str(AliasGmail), Str(AliasGmial),
    Str(SpacedAliasGmial), Str(TwoPlusGmail), Str(AliasOther),
    Str(ShopConAu), Str(SpacedConAu) }

\* the values the entries of a batch are taken from
BatchEmails == { Str(XGmail), Str(BadEmail), Str(JohnGmial), Arr(XGmail) }

RECURSIVE SeqsUpTo(_, _)
SeqsUpTo(S, n) ==
  IF n = 0 THEN { <<>> }
  ELSE LET shorter == SeqsUpTo(S, n - 1)
       IN shorter \cup { Append(q, x) : q \in { r \in shorter : Len(r) = n - 1 }, x \in S }

\* the lists handed to validateBatch
Batches == SeqsUpTo(BatchEmails, MaxBatch)

\* the configurations a service is built from
Configs ==
  { loadConfig(env, <<>>) : env \in Envs }
  \cup { handlerConfig(env) : env \in Envs }
  \cup { loadConfig([USE_ZERO_BOUNCE |-> "false", ZERO_BOUNCE_API_KEY |-> ""], o) :
           o \in { [removeGmailAliases |-> FALSE], [checkAustralianTlds |-> FALSE] } }

\* what readCSV returns for valid-domains.csv at construction
DomainFiles ==
  { <<>>, << [domain |-> <<" ","S","h","o","p",".","c","o","m",".","a","u">>] >> }

\* what readCSV returns for validated.csv at construction
ValidatedFiles == { << [email |-> ABCom] >> }

(***************************************************************************)
(* State                                                                   *)
(***************************************************************************)

VARIABLES
  config,            \* this.config of the service
  validDomains,      \* this.validDomains
  knownValidEmails,  \* this.knownValidEmails
  correctionsCsv,    \* rows appended to corrections.csv since construction
  validatedCsv,      \* rows appended to validated.csv since construction
  procs,             \* the requests being served, one record per caller
  served,            \* number of validateEmail calls requested so far
  reportedValid      \* history: the emails ZeroBounce has reported valid

vars ==
  <<config, validDomains, knownValidEmails, correctionsCsv, validatedCsv, procs, served,
    reportedValid>>

\* no validateEmail call made yet by a caller
noCall == [id |-> 0, state |-> "none"]

\* a caller that has made no request
idleProc ==
  [kind |-> "none", pc |-> "idle", emails |-> <<>>, i |-> 0, results |-> <<>>,
   call |-> noCall]

\* the record of a validateEmail call: its argument, how far it got (state is
\* "awaiting", "returned" or "raised"), its result, the calls it made to
\* addCorrectedEmail, checkWithZeroBounce, the ZeroBounce API and
\* addValidatedEmail, and the responses the API gave it
beginCall(prev, email, b) ==
  [id |-> prev.id + 1, email |-> email, state |-> b.phase, result |-> b.result,
   error |-> b.error, recorderCalls |-> b.recorderCalls,
   checkerCalls |-> b.checkerCalls, requests |-> b.requests, persistCalls |-> <<>>,
   responses |-> <<>>]

\* constructor: config kept, both sets loaded from the CSV files
InitWith(callers) ==
  /\ config \in Configs
  /\ \E data \in DomainFiles : validDomains = loadValidDomains(data)
  /\ \E data \in ValidatedFiles : knownValidEmails = loadValidatedEmails(data)
  /\ correctionsCsv = <<>>
  /\ validatedCsv = <<>>
  /\ procs = [p \in callers |-> idleProc]
  /\ served = 0
  /\ reportedValid = {}

Init == InitWith({1})

(***************************************************************************)
(* Operations                                                              *)
(***************************************************************************)

\* the rows one validateEmail call appends to corrections.csv
recordedRows(b) == [k \in DOMAIN b.recorderCalls |-> correctedEmailRow(b.recorderCalls[k])]

\* validateEmail(email) called directly: runs up to its return, its exception or
\* the wait for the ZeroBounce request
ValidateEmail(p, email, writeOk) ==
  /\ procs[p].pc \in {"idle", "done"}
  /\ served < MaxCalls
  /\ LET b == validateEmailBegin(config, validDomains, knownValidEmails, email) IN
     /\ procs' = [procs EXCEPT ![p] =
          [kind |-> "single",
           pc |-> IF b.phase = "awaiting" THEN "zerobounce" ELSE "done",
           emails |-> <<email>>, i |-> 1, results |-> <<>>,
           call |-> beginCall(procs[p].call, email, b)]]
     /\ correctionsCsv' = appendToCSV(correctionsCsv, recordedRows(b), writeOk)
  /\ served' = served + 1
  /\ UNCHANGED <<config, validDomains, knownValidEmails, validatedCsv, reportedValid>>

\* validateBatch(emails) called: results = [] and the loop is entered; events is
\* the history of the run: "check" for each checkWithZeroBounce call, "delay"
\* for each pacing delay that elapsed
ValidateBatch(p, emails) ==
  /\ procs[p].pc \in {"idle", "done"}
  /\ served + Len(emails) <= MaxCalls
  /\ procs' = [procs EXCEPT ![p] =
       [kind |-> "batch", pc |-> "loop", emails |-> emails, i |-> 1, results |-> <<>>,
        call |-> [noCall EXCEPT !.id = procs[p].call.id], events |-> <<>>]]
  /\ served' = served + Len(emails)
  /\ UNCHANGED <<config, validDomains, knownValidEmails, correctionsCsv, validatedCsv,
                 reportedValid>>

\* the record the catch block of validateBatch pushes
batchFailure(email, message) ==
  [originalEmail |-> email, currentEmail |-> email, status |-> "check_failed",
   error |-> message]

\* faulty variant: results.unshift(result)
pushResult_Unshift(results, result) == <<result>> \o results

\* results.push(result)
pushResult(results, result) == Append(results, result)

\* faulty variant: the try block without the pacing delay
batchReturned_NoDelay(cfg, proc, result) ==
  [proc EXCEPT !.results = pushResult(@, result), !.pc = "loop", !.i = @ + 1]

\* the try block of validateBatch once validateEmail has returned result: the
\* result is pushed, then comes the pacing delay when ZeroBounce is in use and
\* the next entry otherwise
batchReturned(cfg, proc, result) ==
  IF validationOption(cfg, "useZeroBounce")
  THEN [proc EXCEPT !.results = pushResult(@, result), !.pc = "delay"]
  ELSE [proc EXCEPT !.results = pushResult(@, result), !.pc = "loop", !.i = @ + 1]

\* faulty variant: no catch block, the exception ends the batch
batchRaised_Aborts(proc, email, message) == [proc EXCEPT !.pc = "done"]

\* the catch block of validateBatch: the failure record is pushed and the loop
\* goes on with the next entry
batchRaised(proc, email, message) ==
  [proc EXCEPT !.results = pushResult(@, batchFailure(email, message)),
               !.pc = "loop", !.i = @ + 1]

\* faulty variant: validateEmail is not awaited, the loop goes on to the next
\* entry while the request is in flight
batchAwaiting_FanOut(proc) == [proc EXCEPT !.pc = "loop", !.i = @ + 1]

\* await this.validateEmail(email): the loop is suspended until the call settles
batchAwaiting(proc) == [proc EXCEPT !.pc = "zerobounce"]

\* one iteration of the loop of validateBatch, up to the next wait
BatchIterate(p, writeOk) ==
  /\ procs[p].pc = "loop"
  /\ procs[p].i <= Len(procs[p].emails)
  /\ LET email == procs[p].emails[procs[p].i]
         b == validateEmailBegin(config, validDomains, knownValidEmails, email)
         called == [procs[p] EXCEPT !.call = beginCall(procs[p].call, email, b),
                                    !.events = @ \o [k \in DOMAIN b.checkerCalls |-> "check"]]
     IN
     /\ procs' = [procs EXCEPT ![p] =
          CASE b.phase = "returned" -> batchReturned(config, called, b.result)
            [] b.phase = "raised" -> batchRaised(called, email, b.error)
            [] OTHER -> batchAwaiting(called)]
     /\ correctionsCsv' = appendToCSV(correctionsCsv, recordedRows(b), writeOk)
  /\ UNCHANGED <<config, validDomains, knownValidEmails, validatedCsv, served,
                 reportedValid>>

\* the ZeroBounce request of caller p settles: checkWithZeroBounce maps the
\* response, records a valid email, and validateEmail returns
ZeroBounceResponse(p, resp, writeOk) ==
  /\ procs[p].pc = "zerobounce"
  /\ LET c == procs[p].call
         email == c.requests[1]
         bounceCheck == zeroBounceOutcome(email, resp, writeOk)
         result == validateEmailAdopt(c.result, bounceCheck)
         returned == [procs[p] EXCEPT
                        !.call = [c EXCEPT !.state = "returned", !.result = result,
                                           !.persistCalls = zeroBouncePersist(email, bounceCheck),
                                           !.responses = Append(@, resp)]]
     IN
     /\ validatedCsv' = appendToCSV(validatedCsv, zeroBouncePersist(email, bounceCheck), writeOk)
     /\ knownValidEmails' = knownAfterCheck(knownValidEmails, email, bounceCheck)
     /\ procs' = [procs EXCEPT ![p] =
          IF procs[p].kind = "batch"
          THEN batchReturned(config, returned, result)
          ELSE [returned EXCEPT !.pc = "done"]]
     /\ reportedValid' = reportedValid \cup
          (IF resp.ok /\ resp.status = "valid" THEN {email} ELSE {})
  /\ UNCHANGED <<config, validDomains, correctionsCsv, served>>

\* the pacing delay of validateBatch elapses
BatchDelayElapsed(p) ==
  /\ procs[p].pc = "delay"
  /\ procs' = [procs EXCEPT ![p] =
       [@ EXCEPT !.pc = "loop", !.i = @ + 1, !.events = Append(@, "delay")]]
  /\ UNCHANGED <<config, validDomains, knownValidEmails, correctionsCsv, validatedCsv, served,
                 reportedValid>>

\* the loop of validateBatch is over: results is returned
BatchReturn(p) ==
  /\ procs[p].pc = "loop"
  /\ procs[p].i > Len(procs[p].emails)
  /\ procs' = [procs EXCEPT ![p] = [@ EXCEPT !.pc = "done"]]
  /\ UNCHANGED <<config, validDomains, knownValidEmails, correctionsCsv, validatedCsv, served,
                 reportedValid>>

Next ==
  \/ \E p \in DOMAIN procs, email \in Emails, writeOk \in BOOLEAN :
       ValidateEmail(p, email, writeOk)
  \/ \E p \in DOMAIN procs, emails \in Batches : ValidateBatch(p, emails)
  \/ \E p \in DOMAIN procs, writeOk \in BOOLEAN : BatchIterate(p, writeOk)
  \/ \E p \in DOMAIN procs, resp \in ZeroBounceResponses, writeOk \in BOOLEAN :
       ZeroBounceResponse(p, resp, writeOk)
  \/ \E p \in DOMAIN procs : BatchDelayElapsed(p)
  \/ \E p \in DOMAIN procs : BatchReturn(p)

Spec == Init /\ [][Next]_vars

(***************************************************************************)
(* Construction of the service                                             *)
(***************************************************************************)

ShopRow == [domain |-> <<" ","S","h","o","p",".","c","o","m",".","a","u">>]

\* valid-domains.csv when the service is constructed: missing, unreadable, with
\* the header only, with rows (one in mixed case with a leading blank, one with
\* an empty domain column, one that repeats a default domain)
DomainCsvFiles ==
  { [state |-> "missing", rows |-> <<>>],
    [state |-> "unreadable", rows |-> <<ShopRow>>],
    [state |-> "ok", rows |-> <<>>],
    [state |-> "ok", rows |-> <<ShopRow>>],
    [state |-> "ok", rows |-> <<[domain |-> <<>>], [domain |-> GmailCom], ShopRow>>] }

\* validated.csv when the service is constructed
ValidatedCsvFiles ==
  { [state |-> "missing", rows |-> <<>>],
    [state |-> "unreadable", rows |-> <<[email |-> ABCom]>>],
    [state |-> "ok", rows |-> <<>>],
    [state |-> "ok", rows |-> <<[email |-> ABCom]>>],
    [state |-> "ok", rows |-> <<[email |-> <<>>], [email |-> <<" ">> \o UpperGmail]>>] }

\* this.config before the constructor has run
Unconstructed == [constructed |-> FALSE]

\* no service yet
ConstructInit ==
  /\ config = Unconstructed
  /\ validDomains = {}
  /\ knownValidEmails = {}
  /\ correctionsCsv = <<>>
  /\ validatedCsv = <<>>
  /\ procs = [p \in {1} |-> idleProc]
  /\ served = 0
  /\ reportedValid = {}

\* new EmailValidationService(cfg): the config is kept and both sets are loaded
\* through the CSV manager; the caller's record keeps the files it found
Construct(p, cfg, domainsFile, emailsFile) ==
  /\ config = Unconstructed
  /\ config' = cfg
  /\ validDomains' = loadValidDomains(readCSV(domainsFile))
  /\ knownValidEmails' = loadValidatedEmails(readCSV(emailsFile))
  /\ procs' = [procs EXCEPT ![p] =
       [kind |-> "construct", pc |-> "idle", emails |-> <<>>, i |-> 0, results |-> <<>>,
        call |-> noCall, files |-> [validDomains |-> domainsFile, validatedEmails |-> emailsFile]]]
  /\ UNCHANGED <<correctionsCsv, validatedCsv, served, reportedValid>>

ConstructNext ==
  \E p \in DOMAIN procs, cfg \in Configs, domainsFile \in DomainCsvFiles,
     emailsFile \in ValidatedCsvFiles : Construct(p, cfg, domainsFile, emailsFile)

ConstructSpec == ConstructInit /\ [][ConstructNext]_vars

(***************************************************************************)
(* Overlapping requests on the shared service instance                     *)
(***************************************************************************)

\* the request bodies of the overlapping requests
RequestEmails == { Str(XGmail), Str(UpperGmail), Str(JohnGmial), Str(BadEmail) }

\* what the ZeroBounce API answers them
RequestResponses ==
  { r \in ZeroBounceResponses : ~r.ok \/ r.status \in {"valid", "unknown"} }

\* the module-level emailValidator of the single-email endpoint, with two
\* requests that can be in flight together
HandlerInit == InitWith({1, 2})

\* a request calls emailValidator.validateEmail, or the ZeroBounce request of
\* one of them settles; each request is its own async invocation, so the steps
\* of the two interleave at the await
HandlerNext ==
  \/ \E p \in DOMAIN procs, email \in RequestEmails, writeOk \in BOOLEAN :
       ValidateEmail(p, email, writeOk)
  \/ \E p \in DOMAIN procs, resp \in RequestResponses, writeOk \in BOOLEAN :
       ZeroBounceResponse(p, resp, writeOk)

HandlerSpec == HandlerInit /\ [][HandlerNext]_vars

(***************************************************************************)
(* correctEmailTypos called on its own                                     *)
(***************************************************************************)

\* the caller's record of its correctEmailTypos calls: emails are the arguments,
\* results what each call returned or threw with the addCorrectedEmail
\* invocations it made, writes whether the recorder's write went through
correctorCalled(proc, email, c, writeOk) ==
  [kind |-> "correct", pc |-> "corrected",
   emails |-> Append(proc.emails, email), i |-> proc.i + 1,
   results |-> Append(proc.results, c), call |-> proc.call,
   writes |-> Append(proc.writes, writeOk)]

\* correctEmailTypos(email) on a fresh input
CorrectEmailTypos(p, email, writeOk) ==
  /\ procs[p].pc \in {"idle", "corrected"}
  /\ served < MaxCalls
  /\ LET c == correctEmailTypos(config, email) IN
     /\ procs' = [procs EXCEPT ![p] =
          correctorCalled([idleProc EXCEPT !.call = procs[p].call] @@ [writes |-> <<>>],
                          email, c, writeOk)]
     /\ correctionsCsv' = appendToCSV(correctionsCsv, recordedRows(c), writeOk)
  /\ served' = served + 1
  /\ UNCHANGED <<config, validDomains, knownValidEmails, validatedCsv, reportedValid>>

\* correctEmailTypos applied to the email the previous call returned
CorrectAgain(p, writeOk) ==
  /\ procs[p].pc = "corrected"
  /\ served < MaxCalls
  /\ ~procs[p].results[Len(procs[p].results)].threw
  /\ LET email == procs[p].results[Len(procs[p].results)].email
         c == correctEmailTypos(config, email)
     IN
     /\ procs' = [procs EXCEPT ![p] = correctorCalled(procs[p], email, c, writeOk)]
     /\ correctionsCsv' = appendToCSV(correctionsCsv, recordedRows(c), writeOk)
  /\ served' = served + 1
  /\ UNCHANGED <<config, validDomains, knownValidEmails, validatedCsv, reportedValid>>

CorrectorNext ==
  \/ \E p \in DOMAIN procs, email \in CorrectorEmails, writeOk \in BOOLEAN :
       CorrectEmailTypos(p, email, writeOk)
  \/ \E p \in DOMAIN procs, writeOk \in BOOLEAN : CorrectAgain(p, writeOk)

CorrectorSpec == Init /\ [][CorrectorNext]_vars

(***************************************************************************)
(* Properties                                                              *)
(***************************************************************************)

\* the validateEmail calls made so far that the state still records
Calls == { procs[p].call : p \in { q \in DOMAIN procs : procs[q].call.state # "none" } }

\* caller p begins a validateEmail call in this step
CallBegins(p) == procs'[p].call.id # procs[p].call.id

\* the deliverability check is in effect
UsesZeroBounce == validationOption(config, "useZeroBounce")

\* the domain of a corrected email, read off the string
DomainOf(email) == SubSeq(email, (CHOOSE i \in DOMAIN email : email[i] = "@") + 1, Len(email))

\* a result is the bad-format result
IsBadFormat(r) ==
  /\ r.status = "invalid"
  /\ r.subStatus = "bad_format"
  /\ r.recheckNeeded = FALSE
  /\ r.formatValid = FALSE
  /\ r.validationSteps = << [step |-> "format_check", passed |-> FALSE] >>

\* inputs of the kinds the format grammar rejects: empty, null, no "@", two
\* "@", a label that starts with a hyphen, a label of 64 characters
MalformedInputs ==
  { Str(<<>>), Null, Str(BadEmail), Str(TwoAts), Str(HyphenLabel),
    Str(LongLabel(MaxLabelLen + 1)) }

\* C1: every validateEmail call whose input fails isValidEmailFormat (among
\* them the empty string, null, an input without "@", with two "@", with an
\* invalid label) returns invalid/bad_format with recheckNeeded and formatValid
\* false and the single step record (format_check, passed=false).
C1_BadFormatResult ==
  \A c \in Calls :
    (~isValidEmailFormat(c.email) \/ c.email \in MalformedInputs)
      => c.state = "returned" /\ IsBadFormat(c.result)

C1_Witness ==
  \E c \in Calls : c.email = Str(TwoAts) /\ c.state = "returned" /\ IsBadFormat(c.result)

\* C2: a validateEmail call that fails the format check invokes neither the
\* correction recorder nor the deliverability checker, persists nothing and
\* leaves validDomains and knownValidEmails as they were.
C2_BadFormatNoEffects ==
  [][\A p \in DOMAIN procs :
       (CallBegins(p) /\ ~isValidEmailFormat(procs'[p].call.email))
         => /\ procs'[p].call.recorderCalls = <<>>
            /\ procs'[p].call.checkerCalls = <<>>
            /\ procs'[p].call.requests = <<>>
            /\ procs'[p].call.persistCalls = <<>>
            /\ procs'[p].call.state = "returned"
            /\ UNCHANGED <<correctionsCsv, validatedCsv, validDomains, knownValidEmails>>]_vars

C2_Witness ==
  \E c \in Calls :
    /\ c.email = Str(InnerSpace)
    /\ c.state = "returned"
    /\ c.result.subStatus = "bad_format"
    /\ UsesZeroBounce

\* C3: a format-valid string input whose corrected form is in knownValidEmails
\* when validateEmail is called returns valid with recheckNeeded false and
\* isKnownValid true, ends at the known_valid_check step (three step records,
\* no domain check) and does not invoke the deliverability checker, under every
\* configuration.
C3_KnownValidShortCircuit ==
  [][\A p \in DOMAIN procs :
       (/\ CallBegins(p)
        /\ procs'[p].call.email.type = "string"
        /\ isValidEmailFormat(procs'[p].call.email)
        /\ correctEmailTypos(config, procs'[p].call.email).email.str \in knownValidEmails)
         => LET c == procs'[p].call IN
            /\ c.state = "returned"
            /\ c.result.status = "valid"
            /\ c.result.recheckNeeded = FALSE
            /\ c.result.isKnownValid = TRUE
            /\ Len(c.result.validationSteps) = 3
            /\ c.result.validationSteps[3] = [step |-> "known_valid_check", passed |-> TRUE]
            /\ c.checkerCalls = <<>>
            /\ c.requests = <<>>]_vars

C3_Witness ==
  \E c \in Calls :
    /\ c.state = "returned"
    /\ c.email = Str(ABCom)
    /\ c.result.isKnownValid
    /\ c.result.status = "valid"
    /\ UsesZeroBounce
    /\ validationOption(config, "zeroBounceApiKey")

\* C4: with the deliverability check disabled, a format-valid input that is not
\* known-valid gets status unknown and recheckNeeded true when the domain of
\* the corrected email is in validDomains, and status invalid and recheckNeeded
\* false when it is not.
C4_DomainOnlyDecision ==
  \A c \in Calls :
    (/\ ~UsesZeroBounce
     /\ c.state = "returned"
     /\ c.result.formatValid
     /\ ~c.result.isKnownValid)
      => IF DomainOf(c.result.currentEmail.str) \in validDomains
         THEN c.result.status = "unknown" /\ c.result.recheckNeeded = TRUE
         ELSE c.result.status = "invalid" /\ c.result.recheckNeeded = FALSE

C4_Witness ==
  /\ \E c \in Calls :
       /\ c.state = "returned" /\ c.email = Str(UnknownDomain)
       /\ c.result.status = "invalid" /\ c.result.recheckNeeded = FALSE
       /\ c.result.formatValid
  /\ ~UsesZeroBounce

\* the last step record of a result
LastStep(r) == r.validationSteps[Len(r.validationSteps)]

\* C5: with the deliverability check enabled, a format-valid input that is not
\* known-valid makes validateEmail call the checker exactly once, with the
\* corrected email, and the result carries exactly the checker's status,
\* subStatus and recheckNeeded, whatever the domain check found.
C5_CheckerDecides ==
  \A c \in Calls :
    (/\ UsesZeroBounce
     /\ c.state \in {"awaiting", "returned"}
     /\ c.result.formatValid
     /\ ~c.result.isKnownValid)
      => /\ c.checkerCalls = << c.result.currentEmail.str >>
         /\ c.state = "returned" =>
              /\ LastStep(c.result).step = "zerobounce_check"
              /\ LastStep(c.result).result.email = c.result.currentEmail.str
              /\ c.result.status = LastStep(c.result).result.status
              /\ c.result.subStatus = LastStep(c.result).result.subStatus
              /\ c.result.recheckNeeded = LastStep(c.result).result.recheckNeeded

C5_Witness ==
  \E c \in Calls :
    /\ UsesZeroBounce
    /\ c.state = "returned"
    /\ c.email = Str(JohnGmial)
    /\ c.checkerCalls = << At(<<"j","o","h","n">>, GmailCom) >>
    /\ c.result.domainValid
    /\ c.result.status = "invalid"
    /\ c.result.subStatus = "mailbox_not_found"

\* C6: checkWithZeroBounce hands no exception on: when the API key is missing
\* or the request fails, the checker's result is check_failed with
\* recheckNeeded true, validateEmail returns with those values and
\* knownValidEmails stays as it was.
C6_CheckerFailureContained ==
  [][\A p \in DOMAIN procs :
       LET c == procs'[p].call IN
       (\/ /\ CallBegins(p)
           /\ c.checkerCalls # <<>>
           /\ ~validationOption(config, "zeroBounceApiKey")
        \/ /\ procs[p].pc = "zerobounce"
           /\ procs'[p].pc # "zerobounce"
           /\ ~c.responses[Len(c.responses)].ok)
         => /\ c.state = "returned"
            /\ LastStep(c.result).step = "zerobounce_check"
            /\ LastStep(c.result).result.status = "check_failed"
            /\ LastStep(c.result).result.recheckNeeded = TRUE
            /\ c.result.status = "check_failed"
            /\ c.result.recheckNeeded = TRUE
            /\ knownValidEmails' = knownValidEmails]_vars

C6_Witness ==
  \E c \in Calls :
    /\ c.state = "returned"
    /\ c.requests # <<>>
    /\ c.responses = << [ok |-> FALSE, status |-> Undefined, sub_status |-> Undefined] >>
    /\ c.result.status = "check_failed"
    /\ c.result.recheckNeeded

\* C7: once the checker has reported an email valid, the email is in
\* knownValidEmails, and every validateEmail call begun afterwards whose
\* corrected email is that email returns valid with isKnownValid true without
\* invoking the checker.
C7_ValidIsRemembered ==
  /\ [](reportedValid \subseteq knownValidEmails)
  /\ [][\A p \in DOMAIN procs :
          (/\ CallBegins(p)
           /\ procs'[p].call.email.type = "string"
           /\ isValidEmailFormat(procs'[p].call.email)
           /\ correctEmailTypos(config, procs'[p].call.email).email.str \in reportedValid)
            => LET c == procs'[p].call IN
               /\ c.state = "returned"
               /\ c.result.status = "valid"
               /\ c.result.isKnownValid = TRUE
               /\ c.checkerCalls = <<>>
               /\ c.requests = <<>>]_vars

C7_Witness ==
  \E c \in Calls :
    /\ c.state = "returned"
    /\ c.email = Str(UpperGmail)
    /\ c.result.currentEmail = Str(XGmail)
    /\ XGmail \in reportedValid
    /\ c.result.isKnownValid
    /\ c.result.status = "valid"
    /\ c.checkerCalls = <<>>

\* the step names of a result, in order
StepNames(r) == [k \in DOMAIN r.validationSteps |-> r.validationSteps[k].step]

\* a returned call that went past the known-valid check, so reached step 5
ReachedStep5(c) ==
  c.state = "returned" /\ c.result.formatValid /\ ~c.result.isKnownValid

\* C8 as stated: a call that reaches step 5 ends with five step records in
\* either branch of the deliverability decision.
C8_FiveStepsInBothBranches ==
  \A c \in Calls : ReachedStep5(c) => Len(c.result.validationSteps) = 5

\* C8 as the code has it: the format check, the correction, the known-valid
\* check, the domain check and the ZeroBounce check each append one record
\* when they run, and the domain-only branch of step 5 appends none: a call
\* that reaches step 5 ends with five records when the deliverability check is
\* enabled and with four (the last one domain_check) when it is disabled.
C8_StepRecords ==
  \A c \in Calls :
    /\ ReachedStep5(c) =>
         StepNames(c.result) =
           IF UsesZeroBounce
           THEN <<"format_check", "typo_correction", "known_valid_check",
                  "domain_check", "zerobounce_check">>
           ELSE <<"format_check", "typo_correction", "known_valid_check",
                  "domain_check">>
    /\ (c.state = "returned" /\ ~c.result.formatValid) =>
         StepNames(c.result) = <<"format_check">>
    /\ (c.state = "returned" /\ c.result.isKnownValid) =>
         StepNames(c.result) = <<"format_check", "typo_correction", "known_valid_check">>

C8_Witness ==
  \E c \in Calls :
    /\ ~UsesZeroBounce
    /\ ReachedStep5(c)
    /\ c.result.status = "unknown"
    /\ Len(c.result.validationSteps) = 4
    /\ LastStep(c.result) = [step |-> "domain_check", passed |-> TRUE]

\* the validateBatch runs in progress or finished
BatchCallers == { p \in DOMAIN procs : procs[p].kind = "batch" }

\* C9: validateBatch returns one result per input, the i-th result carrying
\* the i-th input as originalEmail, also when entries are malformed,
\* short-circuited or failed.
C9_BatchOrder ==
  \A p \in BatchCallers :
    /\ Len(procs[p].results) <= Len(procs[p].emails)
    /\ \A k \in DOMAIN procs[p].results :
         procs[p].results[k].originalEmail = procs[p].emails[k]
    /\ procs[p].pc = "done" => Len(procs[p].results) = Len(procs[p].emails)

C9_Witness ==
  \E p \in BatchCallers :
    /\ procs[p].pc = "done"
    /\ procs[p].emails = << Str(BadEmail), Str(XGmail) >>
    /\ Len(procs[p].results) = 2
    /\ procs[p].results[1].subStatus = "bad_format"
    /\ procs[p].results[2].status = "valid"

\* validateEmail throws on this input: it passes the format check and is no string
Raises(email) == email.type # "string" /\ isValidEmailFormat(email)

\* C10: an entry on which validateEmail throws gets a record with status
\* check_failed and the error message, the batch goes on to validate every
\* later entry, and the results already pushed stay as they are.
C10_BatchSurvivesThrow ==
  /\ [](\A p \in BatchCallers :
          /\ \A k \in DOMAIN procs[p].results :
               IF Raises(procs[p].emails[k])
               THEN /\ procs[p].results[k].status = "check_failed"
                    /\ procs[p].results[k].error = TrimTypeError
                    /\ procs[p].results[k].originalEmail = procs[p].emails[k]
               ELSE /\ procs[p].results[k].validationSteps # <<>>
                    /\ procs[p].results[k].originalEmail = procs[p].emails[k]
          /\ procs[p].pc = "done" => Len(procs[p].results) = Len(procs[p].emails))
  /\ [][\A p \in DOMAIN procs :
          (procs[p].kind = "batch" /\ procs[p].pc # "done")
            => /\ Len(procs'[p].results) >= Len(procs[p].results)
               /\ SubSeq(procs'[p].results, 1, Len(procs[p].results)) = procs[p].results]_vars

C10_Witness ==
  \E p \in BatchCallers :
    /\ procs[p].pc = "done"
    /\ procs[p].emails = << Arr(XGmail), Str(JohnGmial) >>
    /\ procs[p].results[1].status = "check_failed"
    /\ procs[p].results[1].error = TrimTypeError
    /\ procs[p].results[2].validationSteps # <<>>
    /\ procs[p].results[2].wasCorrected

\* C11: with the deliverability check enabled, a pacing delay elapses between
\* any two successive checkWithZeroBounce calls of a validateBatch run, and the
\* delay leaves the results and their order as they are.
C11_PacedChecks ==
  /\ [](\A p \in BatchCallers :
          /\ \A k \in 1..(Len(procs[p].events) - 1) :
               procs[p].events[k] = "check" => procs[p].events[k + 1] = "delay"
          /\ UsesZeroBounce =>
               \A k \in DOMAIN procs[p].results :
                 procs[p].results[k].originalEmail = procs[p].emails[k])
  /\ [][\A p \in DOMAIN procs :
          (procs[p].pc = "delay" /\ procs'[p].pc # "delay")
            => procs'[p].results = procs[p].results]_vars

C11_Witness ==
  \E p \in BatchCallers :
    /\ UsesZeroBounce
    /\ procs[p].pc = "done"
    /\ procs[p].emails = << Str(XGmail), Str(JohnGmial) >>
    /\ procs[p].events = <<"check", "delay", "check", "delay">>
    /\ Len(procs[p].call.requests) = 1
    /\ Len(procs[p].results) = 2

\* the correctEmailTypos calls made on their own, each with its argument, its
\* outcome and whether the recorder's write went through
Corrections ==
  UNION { { [email |-> procs[p].emails[k], c |-> procs[p].results[k],
             writeOk |-> procs[p].writes[k]] : k \in DOMAIN procs[p].results } :
          p \in { q \in DOMAIN procs : procs[q].kind = "correct" } }

\* the calls among them whose argument is a non-empty string, the inputs the
\* rules run on
StringCorrections == { x \in Corrections : x.email.type = "string" /\ x.email.str # <<>> }

\* the input lower-cased and trimmed, and then with all whitespace removed
Normalized(s) == ToLowerCase(Trim(s))

Stripped(s) == RemoveWhitespace(Normalized(s))

\* the input has exactly one "@" after whitespace removal
SplitsInTwo(s) == Len(Split(Stripped(s), "@")) = 2

LocalOf(s) == Split(Stripped(s), "@")[1]

DomainPartOf(s) == Split(Stripped(s), "@")[2]

\* which rules fire on an input, read off the input and the tables
WhitespaceFires(s) == Stripped(s) # Normalized(s)

TypoFires(s) == SplitsInTwo(s) /\ \E t \in DOMAIN_TYPOS : t[1] = DomainPartOf(s)

DomainAfterTypo(s) ==
  IF TypoFires(s) THEN (CHOOSE t \in DOMAIN_TYPOS : t[1] = DomainPartOf(s))[2]
  ELSE DomainPartOf(s)

AliasFires(cfg, s) ==
  /\ SplitsInTwo(s)
  /\ validationOption(cfg, "removeGmailAliases")
  /\ DomainAfterTypo(s) = GmailCom
  /\ \E i \in DOMAIN LocalOf(s) : LocalOf(s)[i] = "+"

TldFires(cfg, s) ==
  /\ SplitsInTwo(s)
  /\ validationOption(cfg, "checkAustralianTlds")
  /\ \E t \in AUSTRALIAN_TLDS : EndsWith(DomainAfterTypo(s), t[1])

AnyRuleFires(cfg, s) ==
  WhitespaceFires(s) \/ TypoFires(s) \/ AliasFires(cfg, s) \/ TldFires(cfg, s)

\* C12: correctEmailTypos reports the type of the last rule that fired in the
\* order whitespace, domain typo, Gmail alias, Australian TLD (tld over
\* gmail_alias over domain_typo over whitespace), and correctionType is null
\* exactly when no rule fired, which is exactly when corrected is false.
C12_LastRuleNamesType ==
  /\ \A x \in StringCorrections :
       /\ x.c.correctionType =
            IF TldFires(config, x.email.str) THEN "tld"
            ELSE IF AliasFires(config, x.email.str) THEN "gmail_alias"
            ELSE IF TypoFires(x.email.str) THEN "domain_typo"
            ELSE IF WhitespaceFires(x.email.str) THEN "whitespace"
            ELSE NullValue
       /\ x.c.corrected <=> AnyRuleFires(config, x.email.str)
       /\ x.c.correctionType = NullValue <=> ~x.c.corrected
  /\ \A x \in Corrections \ StringCorrections :
       ~x.c.threw => (x.c.correctionType = NullValue /\ ~x.c.corrected)

C12_Witness ==
  \E x \in StringCorrections :
    /\ x.email = Str(SpacedGmial)
    /\ WhitespaceFires(x.email.str)
    /\ TypoFires(x.email.str)
    /\ x.c.correctionType = "domain_typo"
    /\ x.c.corrected

\* the local part up to its first "+"
BeforePlus(l) ==
  SubSeq(l, 1, (CHOOSE i \in DOMAIN l : l[i] = "+" /\ \A j \in 1..(i - 1) : l[j] # "+") - 1)

\* a domain with its incorrect Australian suffix replaced
TldFixed(d) ==
  LET t == CHOOSE u \in AUSTRALIAN_TLDS : EndsWith(d, u[1])
  IN SubSeq(d, 1, Len(d) - Len(t[1])) \o t[2]

\* the email that carries the effect of every rule that fires on the input
CumulativeEmail(cfg, s) ==
  IF ~SplitsInTwo(s) THEN Stripped(s)
  ELSE At(IF AliasFires(cfg, s) THEN BeforePlus(LocalOf(s)) ELSE LocalOf(s),
          IF TldFires(cfg, s) THEN TldFixed(DomainAfterTypo(s)) ELSE DomainAfterTypo(s))

C14_RecorderOncePerCorrection ==
  /\ \A x \in Corrections :
       ~x.c.threw =>
         x.c.recorderCalls =
           IF x.c.corrected
           THEN << <<x.email, x.c.email, x.c.correctionType>> >>
           ELSE <<>>
  /\ \A x, y \in Corrections : x.email = y.email => x.c = y.c

\* the local part of the email a correction returned
ReturnedLocal(x) == Split(x.c.email.str, "@")[1]

\* C15: the Gmail alias rule fires exactly when removeGmailAliases is enabled,
\* the domain after typo correction is gmail.com and the local part contains
\* "+"; when it fires the local part is cut at its first "+" and the type is
\* gmail_alias unless the TLD rule fires after it; when it does not fire the
\* local part is kept and the type is not gmail_alias, so with the flag
\* disabled no input yields gmail_alias.
C15_GmailAliasRule ==
  /\ \A x \in { y \in StringCorrections : SplitsInTwo(y.email.str) } :
       IF AliasFires(config, x.email.str)
       THEN /\ ReturnedLocal(x) = BeforePlus(LocalOf(x.email.str))
            /\ x.c.corrected
            /\ ~TldFires(config, x.email.str) => x.c.correctionType = "gmail_alias"
       ELSE /\ ReturnedLocal(x) = LocalOf(x.email.str)
            /\ x.c.correctionType # "gmail_alias"
  /\ ~validationOption(config, "removeGmailAliases") =>
       \A x \in Corrections : x.c.correctionType # "gmail_alias"

C15_Witness ==
  \E x \in StringCorrections :
    /\ x.email = Str(TwoPlusGmail)
    /\ validationOption(config, "removeGmailAliases")
    /\ x.c.email = Str(At(<<"j">>, GmailCom))
    /\ x.c.correctionType = "gmail_alias"

\* the callers that called correctEmailTypos on its own
CorrectorCallers == { p \in DOMAIN procs : procs[p].kind = "correct" }

\* C16: correctEmailTypos applied to the email a correctEmailTypos call
\* returned gives corrected=false and the same email and does not invoke the
\* correction recorder.
C16_CorrectionIdempotent ==
  \A p \in CorrectorCallers :
    \A k \in 2..Len(procs[p].results) :
      /\ procs[p].emails[k] = procs[p].results[k - 1].email
      /\ ~procs[p].results[k].threw
      /\ procs[p].results[k].corrected = FALSE
      /\ procs[p].results[k].correctionType = NullValue
      /\ procs[p].results[k].email = procs[p].results[k - 1].email
      /\ procs[p].results[k].recorderCalls = <<>>

C16_Witness ==
  \E p \in CorrectorCallers :
    /\ Len(procs[p].results) = 2
    /\ procs[p].emails[1] = Str(SpacedAliasGmial)
    /\ procs[p].results[1].corrected
    /\ procs[p].results[1].correctionType = "gmail_alias"
    /\ procs[p].emails[2] = Str(At(<<"j">>, GmailCom))
    /\ procs[p].results[2].corrected = FALSE
    /\ procs[p].results[2].email = Str(At(<<"j">>, GmailCom))

\* C17: over any sequence of validateEmail and validateBatch calls neither
\* validDomains nor knownValidEmails loses an element: every step leaves each
\* set a superset of what it was, hence so does every sequence of steps.
C17_SetsOnlyGrow ==
  [][/\ validDomains \subseteq validDomains'
     /\ knownValidEmails \subseteq knownValidEmails']_vars

C17_Witness ==
  /\ ABCom \in knownValidEmails
  /\ XGmail \in knownValidEmails
  /\ XGmail \in reportedValid
  /\ DefaultDomains \subseteq validDomains

\* the callers that constructed the service
Constructors == { p \in DOMAIN procs : procs[p].kind = "construct" }

\* the six seed domains
SeedDomains ==
  { <<"g","m","a","i","l",".","c","o","m">>,
    <<"o","u","t","l","o","o","k",".","c","o","m">>,
    <<"h","o","t","m","a","i","l",".","c","o","m">>,
    <<"y","a","h","o","o",".","c","o","m">>,
    <<"i","c","l","o","u","d",".","c","o","m">>,
    <<"a","o","l",".","c","o","m">> }

\* the domains a valid-domains.csv persists, in the form the set keeps them:
\* none when the file is missing or cannot be read
PersistedDomains(file) ==
  IF file.state # "ok" THEN {}
  ELSE { ToLowerCase(Trim(file.rows[i].domain)) :
           i \in { j \in DOMAIN file.rows : file.rows[j].domain # <<>> } }

\* C18: after construction validDomains is the six seed domains united with
\* the persisted domains, so the seeds are there whatever the file holds, also
\* when it is missing, empty or unreadable.
C18_SeedsAndPersisted ==
  \A p \in Constructors :
    /\ validDomains = SeedDomains \cup PersistedDomains(procs[p].files.validDomains)
    /\ SeedDomains \subseteq validDomains
    /\ procs[p].files.validDomains.state # "ok" => validDomains = SeedDomains
    /\ procs[p].files.validDomains.rows = <<>> => validDomains = SeedDomains

C18_Witness ==
  \E p \in Constructors :
    /\ procs[p].files.validDomains.state = "ok"
    /\ Len(procs[p].files.validDomains.rows) = 3
    /\ Cardinality(validDomains) = 7
    /\ SeedDomains \subseteq validDomains
    /\ <<"s","h","o","p",".","c","o","m",".","a","u">> \in validDomains

\* a string with every letter in upper case
ToUpperCase(s) ==
  [i \in DOMAIN s |->
     IF s[i] \in Lower THEN UpperSeq[CHOOSE k \in DOMAIN LowerSeq : LowerSeq[k] = s[i]]
     ELSE s[i]]

ShopComAu == At(<<"x">>, <<"s","h","o","p">> \o DotComAu)

\* emails the two lookups are asked about
LookupProbes == { XGmail, ShopComAu, BadEmail }

\* each probe paired with its upper-case and its capitalised spelling
CaseVariants ==
  { <<s, ToUpperCase(s)>> : s \in LookupProbes }
  \cup { <<s, <<ToUpperCase(s)[1]>> \o Tail(s)>> : s \in LookupProbes }

\* C19: every element of validDomains and of knownValidEmails is in lower
\* case, and isKnownValidEmail and isValidDomain answer alike for inputs that
\* differ only in letter case.
C19_LowerCaseSets ==
  /\ \A d \in validDomains : d = ToLowerCase(d)
  /\ \A e \in knownValidEmails : e = ToLowerCase(e)
  /\ \A s \in LookupProbes :
       isKnownValidEmail(knownValidEmails, s) = (s \in knownValidEmails)
  /\ \A sv \in CaseVariants :
       /\ isKnownValidEmail(knownValidEmails, sv[2]) = isKnownValidEmail(knownValidEmails, sv[1])
       /\ isValidDomain(validDomains, sv[2]) = isValidDomain(validDomains, sv[1])

C19_Witness ==
  /\ XGmail \in reportedValid
  /\ XGmail \in knownValidEmails
  /\ isKnownValidEmail(knownValidEmails, UpperGmail)
  /\ isValidDomain(validDomains, ToUpperCase(ShopComAu))
  /\ ~isValidDomain(validDomains, ToUpperCase(UnknownDomain))
  /\ \E c \in Calls : c.email = Str(UpperGmail) /\ c.state = "returned"

\* C20: when ZeroBounce reports an email valid and the write to validated.csv
\* fails (addValidatedEmail was called and the file is as it was), validateEmail
\* still returns valid with recheckNeeded false and the email is in
\* knownValidEmails.
C20_PersistFailureTolerated ==
  [][\A p \in DOMAIN procs :
       LET c == procs'[p].call IN
       (/\ procs[p].pc = "zerobounce"
        /\ procs'[p].pc # "zerobounce"
        /\ c.responses[Len(c.responses)].ok
        /\ c.responses[Len(c.responses)].status = "valid"
        /\ validatedCsv' = validatedCsv)
         => /\ c.state = "returned"
            /\ c.persistCalls # <<>>
            /\ c.result.status = "valid"
            /\ c.result.recheckNeeded = FALSE
            /\ ToLowerCase(c.requests[1]) \in knownValidEmails']_vars

C20_Witness ==
  \E c \in Calls :
    /\ c.state = "returned"
    /\ c.email = Str(JohnGmial)
    /\ c.persistCalls # <<>>
    /\ validatedCsv = <<>>
    /\ c.result.status = "valid"
    /\ c.result.recheckNeeded = FALSE
    /\ At(<<"j","o","h","n">>, GmailCom) \in knownValidEmails

\* the fields every result object is said to carry
ResultFields == {"status", "recheckNeeded", "validationSteps"}

\* C21: no validateEmail call raises, every result it returns carries status,
\* recheckNeeded and validationSteps, and so does every entry of the list
\* validateBatch builds.
C21_CompleteResults ==
  /\ \A c \in Calls :
       /\ c.state # "raised"
       /\ c.state = "returned" => ResultFields \subseteq DOMAIN c.result
  /\ \A p \in BatchCallers : \A k \in DOMAIN procs[p].results :
       ResultFields \subseteq DOMAIN procs[p].results[k]

\* C22: validateBatch has one validateEmail call in flight at a time: while a
\* call is awaited the loop stands at its entry, the call for an entry begins
\* only when the results of all earlier entries are appended, and it sees
\* knownValidEmails as the earlier entries left it.
C22_SequentialBatch ==
  /\ [](\A p \in BatchCallers :
          /\ procs[p].pc \in {"loop", "zerobounce"} => Len(procs[p].results) = procs[p].i - 1
          /\ procs[p].pc = "delay" => Len(procs[p].results) = procs[p].i
          /\ procs[p].pc \in {"loop", "delay", "done"} => procs[p].call.state # "awaiting"
          /\ procs[p].pc = "zerobounce" =>
               /\ procs[p].call.state = "awaiting"
               /\ procs[p].call.email = procs[p].emails[procs[p].i])
  /\ [][\A p \in DOMAIN procs :
          (procs[p].kind = "batch" /\ procs[p].pc # "done" /\ CallBegins(p)) =>
            LET c == procs'[p].call IN
            /\ procs[p].call.state # "awaiting"
            /\ c.email = procs[p].emails[Len(procs[p].results) + 1]
            /\ (c.state # "raised" /\ c.result.formatValid) =>
                 c.result.isKnownValid =
                   (ToLowerCase(c.result.currentEmail.str) \in knownValidEmails)]_vars

C22_Witness ==
  \E p \in BatchCallers :
    /\ procs[p].pc = "done"
    /\ procs[p].emails = << Str(XGmail), Str(XGmail) >>
    /\ procs[p].results[1].status = "valid"
    /\ ~procs[p].results[1].isKnownValid
    /\ procs[p].results[2].isKnownValid
    /\ procs[p].events = <<"check", "delay", "delay">>

\* C23: on a string input that has no "@" or more than one "@" after whitespace
\* removal, correctEmailTypos does not throw, applies none of the domain-typo,
\* Gmail-alias and TLD rules, and returns the input lower-cased with its
\* whitespace removed.
C23_NoSplitNoRules ==
  \A x \in { y \in Corrections : y.email.type = "string" /\ ~SplitsInTwo(y.email.str) } :
    /\ ~x.c.threw
    /\ x.c.email = Str(Stripped(x.email.str))
    /\ x.c.correctionType \in {"whitespace", NullValue}
    /\ x.c.correctionType = "whitespace" <=> WhitespaceFires(x.email.str)

C23_Witness ==
  \E x \in StringCorrections :
    /\ x.email = Str(TwoAtsGmial)
    /\ Len(Split(Stripped(x.email.str), "@")) = 3
    /\ Split(Stripped(x.email.str), "@")[2] = GmialCom
    /\ x.c.email = Str(<<"j","+","p","@">> \o GmialCom \o <<"@","x">>)
    /\ x.c.correctionType = "whitespace"

\* C24: whenever removing the whitespace of the input changes it, wherever the
\* whitespace stands, correctEmailTypos reports corrected, and reports the type
\* whitespace when no later rule fires.
C24_WhitespaceReported ==
  \A x \in StringCorrections :
    RemoveWhitespace(x.email.str) # x.email.str =>
      /\ x.c.corrected
      /\ ~(TypoFires(x.email.str) \/ AliasFires(config, x.email.str)
             \/ TldFires(config, x.email.str))
           => x.c.correctionType = "whitespace"

\* the validateEmail calls that got an answer from the ZeroBounce API, each
\* with the answer
Answered ==
  { [call |-> c, data |-> c.responses[Len(c.responses)]] :
      c \in { d \in Calls : d.state = "returned" /\ d.responses # <<>> } }

\* the coarse status an upstream status stands for
CoarseStatus(upstream) ==
  IF upstream = "valid" THEN "valid"
  ELSE IF upstream \in {"invalid", "spamtrap", "abuse"} THEN "invalid"
  ELSE IF upstream \in {"catch-all", "unknown"} THEN "unknown"
  ELSE "check_failed"

\* C25: checkWithZeroBounce maps valid to valid, invalid, spamtrap and abuse
\* to invalid with the subStatus, catch-all and unknown to unknown, and every
\* other or missing upstream status to check_failed with recheckNeeded true.
C25_StatusMapping ==
  \A a \in Answered :
    LET bounceCheck == a.call.result.validationSteps[5].result IN
    a.data.ok =>
      /\ bounceCheck.status = CoarseStatus(a.data.status)
      /\ a.call.result.status = CoarseStatus(a.data.status)
      /\ a.data.status = "invalid" => bounceCheck.subStatus = a.data.sub_status
      /\ a.data.status \in {"spamtrap", "abuse"} => bounceCheck.subStatus = a.data.status
      /\ bounceCheck.status = "check_failed" => bounceCheck.recheckNeeded = TRUE

C25_Witness ==
  /\ \E a \in Answered :
       /\ a.data.ok
       /\ a.data.status = "do_not_mail"
       /\ a.call.result.status = "check_failed"
       /\ a.call.result.recheckNeeded = TRUE
  /\ { "valid", "invalid", "spamtrap", "abuse", "catch-all", "unknown", "do_not_mail",
       Undefined } \subseteq { r.status : r \in { q \in ZeroBounceResponses : q.ok } }

\* the results validateEmail has returned: to its direct callers and into the
\* lists of validateBatch
ReturnedResults ==
  { c.result : c \in { d \in Calls : d.state = "returned" } }
  \cup UNION { { procs[p].results[k] :
                   k \in { j \in DOMAIN procs[p].results :
                             "validationSteps" \in DOMAIN procs[p].results[j] } } :
               p \in BatchCallers }

\* C26: in every result validateEmail returns, status is one of valid,
\* invalid, unknown and check_failed, and recheckNeeded is true exactly for
\* unknown and check_failed.
C26_RecheckFollowsStatus ==
  \A r \in ReturnedResults :
    /\ r.status \in {"valid", "invalid", "unknown", "check_failed"}
    /\ r.recheckNeeded = (r.status \in {"unknown", "check_failed"})

C26_Witness ==
  \E p \in BatchCallers :
    /\ procs[p].pc = "done"
    /\ procs[p].emails = << Str(XGmail), Str(JohnGmial) >>
    /\ procs[p].results[1].status = "valid"
    /\ ~procs[p].results[1].isKnownValid
    /\ procs[p].results[1].recheckNeeded = FALSE
    /\ procs[p].results[2].status = "check_failed"
    /\ procs[p].results[2].recheckNeeded = TRUE

\* the step names in the order of the pipeline
StepOrder ==
  <<"format_check", "typo_correction", "known_valid_check", "domain_check",
    "zerobounce_check">>

\* C27: in every result validateEmail returns, the step names of
\* validationSteps are the first names of the pipeline order: no name twice,
\* none out of order, none without all the earlier ones.
C27_StepsArePrefix ==
  \A r \in ReturnedResults :
    /\ Len(r.validationSteps) \in 1..Len(StepOrder)
    /\ \A k \in DOMAIN r.validationSteps : r.validationSteps[k].step = StepOrder[k]

C27_Witness ==
  \E p \in BatchCallers :
    /\ procs[p].pc = "done"
    /\ procs[p].emails = << Str(XGmail), Str(XGmail) >>
    /\ Len(procs[p].results[1].validationSteps) = 5
    /\ procs[p].results[1].validationSteps[5].step = "zerobounce_check"
    /\ Len(procs[p].results[2].validationSteps) = 3
    /\ procs[p].results[2].validationSteps[3].step = "known_valid_check"

\* C28: of the validateEmail calls that overlap at the deliverability call, no
\* two are for the same email, and no email is written to validated.csv more
\* than once.
C28_OneCheckPerEmail ==
  /\ \A p, q \in DOMAIN procs :
       (/\ p # q
        /\ procs[p].pc = "zerobounce"
        /\ procs[q].pc = "zerobounce")
         => procs[p].call.requests[1] # procs[q].call.requests[1]
  /\ \A i, j \in DOMAIN validatedCsv :
       i # j => validatedCsv[i].email # validatedCsv[j].email

\* the value holds a whitespace character
HasWhitespace(email) == \E i \in DOMAIN email.str : email.str[i] \in Whitespace

\* C29: no validateEmail call reports a whitespace correction: a result that
\* has the typo_correction step has a correctionType other than whitespace, and
\* an input with whitespace in it ends as invalid/bad_format with currentEmail
\* the unmodified input and nothing recorded.
C29_NoWhitespaceCorrection ==
  /\ \A r \in ReturnedResults :
       Len(r.validationSteps) >= 2 => r.validationSteps[2].correctionType # "whitespace"
  /\ \A c \in Calls :
       HasWhitespace(c.email) =>
         /\ c.state = "returned"
         /\ IsBadFormat(c.result)
         /\ c.result.currentEmail = c.email
         /\ c.result.originalEmail = c.email
         /\ c.recorderCalls = <<>>

C29_Witness ==
  /\ \E c \in Calls :
       /\ c.email = Str(InnerSpace)
       /\ correctEmailTypos(config, c.email).correctionType = "whitespace"
       /\ IsBadFormat(c.result)
       /\ c.result.currentEmail = Str(InnerSpace)
  /\ { Str(LeadingSpace), Str(InnerSpace), Str(TrailingNewline) } \subseteq Emails

\* the service was built from the config literal of the batch endpoint or of
\* the webhook handler
HandlerBuilt == "validation" \notin DOMAIN config

\* the configuration loadConfig() gives for the same environment
LoadedConfig == [validation |-> config]

\* C30: a service built from the handlers' config literal strips Gmail
\* aliases, corrects Australian TLDs and uses the deliverability check exactly
\* when USE_ZERO_BOUNCE is 'true', as a service built from loadConfig() does.
C30_HandlerOptionsInEffect ==
  HandlerBuilt =>
    \A c \in Calls :
      (c.state # "raised" /\ c.result.formatValid) =>
        /\ c.result.currentEmail = correctEmailTypos(LoadedConfig, c.email).email
        /\ (config.useZeroBounce /\ ~c.result.isKnownValid) => c.checkerCalls # <<>>
        /\ ~config.useZeroBounce => c.checkerCalls = <<>>

====
